---- MODULE Spec2Model ----
(***************************************************************************)
(* The pipeline-analysis backend of src/backend/main.py: the handler       *)
(* parse_pipeline and the Kahn-style cycle check check_dag, as a state     *)
(* machine with one program counter per request in flight.                 *)
(*                                                                         *)
(* A Node is modelled by its id and an Edge by its source and target: the  *)
(* other fields (type, position, data, edge id, handles) are never read by *)
(* the handler.  A Python dict is a record of its keys in insertion order  *)
(* and its value function.                                                 *)
(***************************************************************************)
EXTENDS Integers, Sequences, FiniteSets, TLC

\* ------------------------------------------------------------------ bounds
MaxSize == 6
NumReqs == 2

Reqs == 1..NumReqs

\* Node ids are opaque strings that the code only hashes and compares, so a
\* request is taken up to renaming: the i-th distinct id of the node list is
\* IdPool[i], and Dangling stands for any id that is not in the node list.
IdPool == <<"A", "B", "C", "D", "E", "F", "G", "H", "I", "J">>
Dangling == "X"

\* ------------------------------------------------------------------ helpers
Range(s) == {s[i] : i \in DOMAIN s}

NoDups(s) == Cardinality(Range(s)) = Len(s)

MaxOf(S) == IF S = {} THEN 0 ELSE CHOOSE m \in S : \A x \in S : x <= m

\* class Node / class Edge, reduced to the fields the handler reads
MkNode(i) == [id |-> i]

MkEdge(s, t) == [source |-> s, target |-> t]

\* ------------------------------------------------------------------ dicts
EmptyDict == [keys |-> <<>>, val |-> [k \in {} |-> 0]]

Has(d, k) == k \in DOMAIN d.val

\* d[k] = v : a new key goes to the end of the iteration order, an existing
\* key keeps its place
Put(d, k, v) ==
    [keys |-> IF Has(d, k) THEN d.keys ELSE Append(d.keys, k),
     val  |-> [x \in (DOMAIN d.val) \cup {k} |-> IF x = k THEN v ELSE d.val[x]]]

\* ------------------------------------------------------------------ the code's tests and updates
\* a check_dag that tests only the node list
TriviallyDagNodesOnly(ns, es) == ns = <<>>

\* line 69: `if not nodes or not edges`
TriviallyDag(ns, es) == ns = <<>> \/ es = <<>>

\* a filter that tests only the source
ValidEdgeSrcOnly(g, e) == Has(g, e.source)

\* a filter that tests only the target
ValidEdgeTgtOnly(g, e) == Has(g, e.target)

\* a filter that also drops self-loops
ValidEdgeNoSelf(g, e) == Has(g, e.source) /\ Has(g, e.target) /\ e.source # e.target

\* line 83: `if edge.source in graph and edge.target in graph`
ValidEdge(g, e) == Has(g, e.source) /\ Has(g, e.target)

\* `in_degree[edge.target] = 1` in place of `+= 1`
SetDegreeOne(d) == 1

\* line 85: `in_degree[edge.target] += 1`
IncrDegree(d) == d + 1

\* `<= 1` in place of `== 0`
IsAtMostOne(d) == d <= 1

\* line 91 and line 104: `in_degree[...] == 0`
IsZero(d) == d = 0

\* `queue.pop()` : the last element instead of the first
PopBack(q) == <<q[Len(q)], SubSeq(q, 1, Len(q) - 1)>>

\* line 98: `queue.pop(0)` : the element removed, and what is left
PopFront(q) == <<Head(q), Tail(q)>>

\* line 109: `processed_count == len(nodes)`
AllProcessed(count, ns) == count = Len(ns)

\* the number of distinct ids in place of the length of the list
NumDistinctNodes(ns) == Cardinality({ns[i].id : i \in DOMAIN ns})

\* lines 50-51: `len(pipeline.nodes)`, `len(pipeline.edges)`
NumNodes(ns) == Len(ns)

NumEdges(es) == Len(es)

\* ------------------------------------------------------------------ check_dag as a function
\* The same code as one value, for a request on which no subscript fails.
\* lines 77-79
RECURSIVE NodesInto(_, _)
NodesInto(ns, gd) ==
    IF ns = <<>> THEN gd
    ELSE NodesInto(Tail(ns), [g |-> Put(gd.g, Head(ns).id, <<>>),
                              d |-> Put(gd.d, Head(ns).id, 0)])

\* lines 82-85
RECURSIVE EdgesInto(_, _)
EdgesInto(es, gd) ==
    IF es = <<>> THEN gd
    ELSE LET e == Head(es) IN
         EdgesInto(Tail(es),
            IF ValidEdge(gd.g, e)
            THEN [g |-> Put(gd.g, e.source, Append(gd.g.val[e.source], e.target)),
                  d |-> Put(gd.d, e.target, IncrDegree(gd.d.val[e.target]))]
            ELSE gd)

\* lines 89-92
ZeroKeys(d) == SelectSeq(d.keys, LAMBDA k : IsZero(d.val[k]))

\* lines 102-105
RECURSIVE Relax(_, _)
Relax(nbrs, dq) ==
    IF nbrs = <<>> THEN dq
    ELSE LET n == Head(nbrs)
             left == dq.d.val[n] - 1
         IN Relax(Tail(nbrs), [d |-> Put(dq.d, n, left),
                               q |-> IF IsZero(left) THEN Append(dq.q, n) ELSE dq.q])

\* lines 94-105: the value of processed_count when the queue is empty
RECURSIVE Kahn(_, _, _, _)
Kahn(g, d, q, count) ==
    IF q = <<>> THEN count
    ELSE LET popped == PopFront(q)
             dq == Relax(g.val[popped[1]], [d |-> d, q |-> popped[2]])
         IN Kahn(g, dq.d, dq.q, count + 1)

\* lines 64-109
CheckDag(ns, es) ==
    IF TriviallyDag(ns, es) THEN TRUE
    ELSE LET gd == EdgesInto(es, NodesInto(ns, [g |-> EmptyDict, d |-> EmptyDict]))
         IN AllProcessed(Kahn(gd.g, gd.d, ZeroKeys(gd.d), 0), ns)

\* ------------------------------------------------------------------ requests
\* class PipelineRequest (lines 33-35).  Node lists are canonical up to the
\* renaming of ids: position i holds either an id seen before or the next
\* unused id of IdPool.  Duplicate ids are therefore included.
RECURSIVE Canon(_)
Canon(n) ==
    IF n = 0 THEN {<<>>}
    ELSE {Append(s, v) : <<s, v>> \in
            {<<s, v>> \in Canon(n - 1) \X (1..n) : v <= 1 + MaxOf(Range(s))}}

NodeLists ==
    UNION {{[i \in 1..n |-> MkNode(IdPool[s[i]])] : s \in Canon(n)} : n \in 0..MaxSize}

IdsOf(ns) == {ns[i].id : i \in DOMAIN ns}

EdgeKinds(ns) == {MkEdge(s, t) : s \in IdsOf(ns) \cup {Dangling}, t \in IdsOf(ns) \cup {Dangling}}

\* an edge whose two ends are ids of the node list
InNodeSet(ns, e) == e.source \in IdsOf(ns) /\ e.target \in IdsOf(ns)

\* The size of a request: its records, a dangling edge counting twice.
RequestSize(ns, es) ==
    Len(ns) + Len(es) + Cardinality({i \in DOMAIN es : ~InNodeSet(ns, es[i])})

\* The requests of the interleaved specification: a chain, a 2-cycle, a
\* self-loop beside an isolated node, a dangling edge, a duplicated id and
\* an edge-less graph.
ConcRequests ==
    {[nodes |-> <<MkNode("A"), MkNode("B")>>, edges |-> <<MkEdge("A", "B")>>],
     [nodes |-> <<MkNode("A"), MkNode("B")>>, edges |-> <<MkEdge("A", "B"), MkEdge("B", "A")>>],
     [nodes |-> <<MkNode("A"), MkNode("B")>>, edges |-> <<MkEdge("B", "B")>>],
     [nodes |-> <<MkNode("A")>>, edges |-> <<MkEdge(Dangling, "A")>>],
     [nodes |-> <<MkNode("A"), MkNode("A")>>, edges |-> <<MkEdge("A", Dangling)>>],
     [nodes |-> <<MkNode("A")>>, edges |-> <<>>]}

\* ------------------------------------------------------------------ state
VARIABLES
    pc,               \* where each request's handler stands
    nodes, edges,     \* pipeline.nodes, pipeline.edges of each request
    num_nodes, num_edges,
    frame,            \* the locals of check_dag that are bound so far
    graph, in_degree, queue, processed_count, current,
    idx,              \* position of the running for-loop
    exc,              \* the exception raised inside the try block, "" if none
    is_dag,           \* value returned by check_dag
    response,         \* what the handler answered
    order,            \* history: the ids dequeued, in order
    enqueued,         \* history: the ids appended to the queue, in order
    visits            \* history: iterations of the neighbor loop

vars == <<pc, nodes, edges, num_nodes, num_edges, frame, graph, in_degree, queue,
          processed_count, current, idx, exc, is_dag, response, order, enqueued, visits>>

NoResponse == [status |-> "none"]

Init ==
    /\ pc = [r \in Reqs |-> "idle"]
    /\ nodes = [r \in Reqs |-> <<>>]
    /\ edges = [r \in Reqs |-> <<>>]
    /\ num_nodes = [r \in Reqs |-> 0]
    /\ num_edges = [r \in Reqs |-> 0]
    /\ frame = [r \in Reqs |-> {}]
    /\ graph = [r \in Reqs |-> EmptyDict]
    /\ in_degree = [r \in Reqs |-> EmptyDict]
    /\ queue = [r \in Reqs |-> <<>>]
    /\ processed_count = [r \in Reqs |-> 0]
    /\ current = [r \in Reqs |-> ""]
    /\ idx = [r \in Reqs |-> 0]
    /\ exc = [r \in Reqs |-> ""]
    /\ is_dag = [r \in Reqs |-> FALSE]
    /\ response = [r \in Reqs |-> NoResponse]
    /\ order = [r \in Reqs |-> <<>>]
    /\ enqueued = [r \in Reqs |-> <<>>]
    /\ visits = [r \in Reqs |-> 0]

\* a counter kept at module level: every request in flight sees the increment
CountShared(pcount, r) == [q \in Reqs |-> pcount[q] + 1]

\* line 99: `processed_count += 1` on the caller's own local
CountAfterDequeue(pcount, r) == [pcount EXCEPT ![r] = @ + 1]

\* ------------------------------------------------------------------ parse_pipeline
\* lines 42, 49-54: a request that parsed into the records ns and es enters
\* the try block, takes the two lengths and calls check_dag
Accept(r, ns, es) ==
    /\ nodes' = [nodes EXCEPT ![r] = ns]
    /\ edges' = [edges EXCEPT ![r] = es]
    /\ num_nodes' = [num_nodes EXCEPT ![r] = NumNodes(ns)]
    /\ num_edges' = [num_edges EXCEPT ![r] = NumEdges(es)]
    /\ pc' = [pc EXCEPT ![r] = "check_dag"]
    /\ UNCHANGED <<frame, graph, in_degree, queue, processed_count, current, idx, exc,
                   is_dag, response, order, enqueued, visits>>

\* lines 56-62: the success object, or the status-500 error of the except branch
Respond(r) ==
    /\ pc[r] = "respond"
    /\ response' = [response EXCEPT ![r] =
            IF exc[r] = ""
            THEN [status |-> "ok", num_nodes |-> num_nodes[r],
                  num_edges |-> num_edges[r], is_dag |-> is_dag[r]]
            ELSE [status |-> "500", detail |-> exc[r]]]
    /\ pc' = [pc EXCEPT ![r] = "done"]
    /\ UNCHANGED <<nodes, edges, num_nodes, num_edges, frame, graph, in_degree, queue,
                   processed_count, current, idx, exc, is_dag, order, enqueued, visits>>

\* a request of size at most MaxSize arrives
Receive(r) ==
    /\ pc[r] = "idle"
    /\ \E ns \in NodeLists :
         \E k \in 0..(MaxSize - Len(ns)) :
            \E es \in [1..k -> EdgeKinds(ns)] :
                /\ RequestSize(ns, es) <= MaxSize
                /\ Accept(r, ns, es)

\* one of the requests of the interleaved specification arrives
ReceiveConc(r) ==
    /\ pc[r] = "idle"
    /\ \E q \in ConcRequests : Accept(r, q.nodes, q.edges)

\* the request is over: nothing of it is kept (no module-level state)
Finish(r) ==
    /\ pc[r] = "done"
    /\ pc' = [pc EXCEPT ![r] = "idle"]
    /\ nodes' = [nodes EXCEPT ![r] = <<>>]
    /\ edges' = [edges EXCEPT ![r] = <<>>]
    /\ num_nodes' = [num_nodes EXCEPT ![r] = 0]
    /\ num_edges' = [num_edges EXCEPT ![r] = 0]
    /\ frame' = [frame EXCEPT ![r] = {}]
    /\ graph' = [graph EXCEPT ![r] = EmptyDict]
    /\ in_degree' = [in_degree EXCEPT ![r] = EmptyDict]
    /\ queue' = [queue EXCEPT ![r] = <<>>]
    /\ processed_count' = [processed_count EXCEPT ![r] = 0]
    /\ current' = [current EXCEPT ![r] = ""]
    /\ idx' = [idx EXCEPT ![r] = 0]
    /\ exc' = [exc EXCEPT ![r] = ""]
    /\ is_dag' = [is_dag EXCEPT ![r] = FALSE]
    /\ response' = [response EXCEPT ![r] = NoResponse]
    /\ order' = [order EXCEPT ![r] = <<>>]
    /\ enqueued' = [enqueued EXCEPT ![r] = <<>>]
    /\ visits' = [visits EXCEPT ![r] = 0]

\* ------------------------------------------------------------------ check_dag
\* lines 69-74: the trivial case returns at once; otherwise the two dicts
\* are created empty
CheckEmpty(r) ==
    /\ pc[r] = "check_dag"
    /\ IF TriviallyDag(nodes[r], edges[r])
       THEN /\ is_dag' = [is_dag EXCEPT ![r] = TRUE]
            /\ pc' = [pc EXCEPT ![r] = "respond"]
            /\ UNCHANGED <<frame, graph, in_degree, idx>>
       ELSE /\ graph' = [graph EXCEPT ![r] = EmptyDict]
            /\ in_degree' = [in_degree EXCEPT ![r] = EmptyDict]
            /\ frame' = [frame EXCEPT ![r] = @ \cup {"graph", "in_degree"}]
            /\ idx' = [idx EXCEPT ![r] = 1]
            /\ pc' = [pc EXCEPT ![r] = "init_nodes"]
            /\ UNCHANGED is_dag
    /\ UNCHANGED <<nodes, edges, num_nodes, num_edges, queue, processed_count, current,
                   exc, response, order, enqueued, visits>>

\* lines 77-79: one iteration of `for node in nodes`
InitNode(r) ==
    /\ pc[r] = "init_nodes"
    /\ LET node == nodes[r][idx[r]] IN
        /\ graph' = [graph EXCEPT ![r] = Put(@, node.id, <<>>)]
        /\ in_degree' = [in_degree EXCEPT ![r] = Put(@, node.id, 0)]
    /\ IF idx[r] < Len(nodes[r])
       THEN /\ idx' = [idx EXCEPT ![r] = @ + 1]
            /\ UNCHANGED pc
       ELSE /\ idx' = [idx EXCEPT ![r] = 1]
            /\ pc' = [pc EXCEPT ![r] = "build"]
    /\ UNCHANGED <<nodes, edges, num_nodes, num_edges, frame, queue, processed_count,
                   current, exc, is_dag, response, order, enqueued, visits>>

\* lines 82-85: one iteration of `for edge in edges`; a subscript with a key
\* that is missing raises KeyError, which leaves check_dag.  After the last
\* edge, line 89 creates the empty queue.
BuildEdge(r) ==
    /\ pc[r] = "build"
    /\ LET edge == edges[r][idx[r]]
           valid == ValidEdge(graph[r], edge)
           raises == valid /\ (~Has(graph[r], edge.source) \/ ~Has(in_degree[r], edge.target))
       IN
        /\ graph' = [graph EXCEPT ![r] =
                IF valid /\ ~raises
                THEN Put(@, edge.source, Append(@.val[edge.source], edge.target))
                ELSE @]
        /\ in_degree' = [in_degree EXCEPT ![r] =
                IF valid /\ ~raises
                THEN Put(@, edge.target, IncrDegree(@.val[edge.target]))
                ELSE @]
        /\ IF raises
           THEN /\ exc' = [exc EXCEPT ![r] = "KeyError"]
                /\ pc' = [pc EXCEPT ![r] = "respond"]
                /\ UNCHANGED <<queue, idx, frame>>
           ELSE IF idx[r] < Len(edges[r])
           THEN /\ idx' = [idx EXCEPT ![r] = @ + 1]
                /\ UNCHANGED <<queue, pc, exc, frame>>
           ELSE /\ queue' = [queue EXCEPT ![r] = <<>>]
                /\ frame' = [frame EXCEPT ![r] = @ \cup {"queue"}]
                /\ idx' = [idx EXCEPT ![r] = 1]
                /\ pc' = [pc EXCEPT ![r] = "init_queue"]
                /\ UNCHANGED exc
    /\ UNCHANGED <<nodes, edges, num_nodes, num_edges, processed_count, current,
                   is_dag, response, order, enqueued, visits>>

\* lines 90-94: one iteration of `for node_id in in_degree`, in the dict's
\* insertion order; after the last key, processed_count = 0
InitQueue(r) ==
    /\ pc[r] = "init_queue"
    /\ LET node_id == in_degree[r].keys[idx[r]]
           zero == IsZero(in_degree[r].val[node_id])
       IN
        /\ queue' = [queue EXCEPT ![r] = IF zero THEN Append(@, node_id) ELSE @]
        /\ enqueued' = [enqueued EXCEPT ![r] = IF zero THEN Append(@, node_id) ELSE @]
    /\ IF idx[r] < Len(in_degree[r].keys)
       THEN /\ idx' = [idx EXCEPT ![r] = @ + 1]
            /\ UNCHANGED <<pc, processed_count, frame>>
       ELSE /\ processed_count' = [processed_count EXCEPT ![r] = 0]
            /\ frame' = [frame EXCEPT ![r] = @ \cup {"processed_count"}]
            /\ idx' = [idx EXCEPT ![r] = 0]
            /\ pc' = [pc EXCEPT ![r] = "loop"]
    /\ UNCHANGED <<nodes, edges, num_nodes, num_edges, graph, in_degree, current, exc,
                   is_dag, response, order, visits>>

\* lines 96-102: the `while queue` test; when it holds, pop the front, count
\* it and look its adjacency list up
Dequeue(r) ==
    /\ pc[r] = "loop"
    /\ IF queue[r] = <<>>
       THEN /\ pc' = [pc EXCEPT ![r] = "return"]
            /\ UNCHANGED <<queue, current, processed_count, order, idx, exc, frame>>
       ELSE LET popped == PopFront(queue[r]) IN
            /\ current' = [current EXCEPT ![r] = popped[1]]
            /\ queue' = [queue EXCEPT ![r] = popped[2]]
            /\ frame' = [frame EXCEPT ![r] = @ \cup {"current"}]
            /\ processed_count' = CountAfterDequeue(processed_count, r)
            /\ order' = [order EXCEPT ![r] = Append(@, popped[1])]
            /\ IF ~Has(graph[r], popped[1])
               THEN /\ exc' = [exc EXCEPT ![r] = "KeyError"]
                    /\ pc' = [pc EXCEPT ![r] = "respond"]
                    /\ UNCHANGED idx
               ELSE IF graph[r].val[popped[1]] = <<>>
               THEN UNCHANGED <<pc, idx, exc>>
               ELSE /\ idx' = [idx EXCEPT ![r] = 1]
                    /\ pc' = [pc EXCEPT ![r] = "neighbors"]
                    /\ UNCHANGED exc
    /\ UNCHANGED <<nodes, edges, num_nodes, num_edges, graph, in_degree, is_dag,
                   response, enqueued, visits>>

\* lines 102-105: one iteration of `for neighbor in graph[current]`
Neighbor(r) ==
    /\ pc[r] = "neighbors"
    /\ LET neighbor == graph[r].val[current[r]][idx[r]]
           raises == ~Has(in_degree[r], neighbor)
           left == IF raises THEN 0 ELSE in_degree[r].val[neighbor] - 1
           zero == ~raises /\ IsZero(left)
       IN
        /\ in_degree' = [in_degree EXCEPT ![r] = IF raises THEN @ ELSE Put(@, neighbor, left)]
        /\ queue' = [queue EXCEPT ![r] = IF zero THEN Append(@, neighbor) ELSE @]
        /\ enqueued' = [enqueued EXCEPT ![r] = IF zero THEN Append(@, neighbor) ELSE @]
        /\ visits' = [visits EXCEPT ![r] = @ + 1]
        /\ IF raises
           THEN /\ exc' = [exc EXCEPT ![r] = "KeyError"]
                /\ pc' = [pc EXCEPT ![r] = "respond"]
                /\ UNCHANGED idx
           ELSE IF idx[r] < Len(graph[r].val[current[r]])
           THEN /\ idx' = [idx EXCEPT ![r] = @ + 1]
                /\ UNCHANGED <<pc, exc>>
           ELSE /\ idx' = [idx EXCEPT ![r] = 0]
                /\ pc' = [pc EXCEPT ![r] = "loop"]
                /\ UNCHANGED exc
    /\ UNCHANGED <<nodes, edges, num_nodes, num_edges, frame, graph, processed_count,
                   current, is_dag, response, order>>

\* line 109: `return processed_count == len(nodes)`
Return(r) ==
    /\ pc[r] = "return"
    /\ is_dag' = [is_dag EXCEPT ![r] = AllProcessed(processed_count[r], nodes[r])]
    /\ pc' = [pc EXCEPT ![r] = "respond"]
    /\ UNCHANGED <<nodes, edges, num_nodes, num_edges, frame, graph, in_degree, queue,
                   processed_count, current, idx, exc, response, order, enqueued, visits>>

\* ------------------------------------------------------------------ specifications
Step(r) ==
    \/ CheckEmpty(r)
    \/ InitNode(r)
    \/ BuildEdge(r)
    \/ InitQueue(r)
    \/ Dequeue(r)
    \/ Neighbor(r)
    \/ Return(r)
    \/ Respond(r)
    \/ Finish(r)

\* One request at a time, drawn from every request within the bounds.
Next ==
    \/ Receive(1)
    \/ Step(1)

Spec == Init /\ [][Next]_vars

\* Requests in flight together, their steps interleaved in any order.
NextConc ==
    \E r \in Reqs :
        \/ ReceiveConc(r)
        \/ Step(r)

SpecConc == Init /\ [][NextConc]_vars

\* ------------------------------------------------------------------ graph vocabulary of the claims
\* the ids of a node list in request order, each at its first occurrence
RECURSIVE FirstIds(_)
FirstIds(ns) ==
    IF ns = <<>> THEN <<>>
    ELSE LET rest == FirstIds(SubSeq(ns, 1, Len(ns) - 1))
             last == ns[Len(ns)].id
         IN IF last \in Range(rest) THEN rest ELSE Append(rest, last)

DistinctIds(ns) == NoDups([i \in DOMAIN ns |-> ns[i].id])

Arcs(ns, es) == {<<es[i].source, es[i].target>> : i \in {j \in DOMAIN es : InNodeSet(ns, es[j])}}

RECURSIVE PathsWithin(_, _, _)
PathsWithin(R, E, n) ==
    IF n = 0 THEN R
    ELSE PathsWithin(R \cup {<<x[1][1], x[2][2]>> : x \in {y \in R \X E : y[1][2] = y[2][1]}},
                     E, n - 1)

\* the graph of the edges inside the node set has a directed cycle
HasCycle(ns, es) ==
    LET E == Arcs(ns, es) IN
    \E a \in IdsOf(ns) : <<a, a>> \in PathsWithin(E, E, Cardinality(IdsOf(ns)))

Done(r) == pc[r] = "done"

Answered(r) == Done(r) /\ response[r].status = "ok"

\* ------------------------------------------------------------------ claims
\* C1: for a node list with pairwise distinct ids and any edge list,
\* check_dag returns true exactly when the edges with both ends in the node
\* set form no directed cycle.
C1_DagIffAcyclic ==
    \A r \in Reqs :
        (Done(r) /\ DistinctIds(nodes[r])) =>
            /\ response[r].status = "ok"
            /\ response[r].is_dag = ~HasCycle(nodes[r], edges[r])

\* the 3-cycle A->B->C->A has been answered with is_dag = false
C1_Witness ==
    \E r \in Reqs :
        /\ Answered(r)
        /\ nodes[r] = <<MkNode("A"), MkNode("B"), MkNode("C")>>
        /\ edges[r] = <<MkEdge("A", "B"), MkEdge("B", "C"), MkEdge("C", "A")>>
        /\ response[r].is_dag = FALSE

\* C2: on every input, duplicate ids included, check_dag returns false only
\* when the edges with both ends in the node set contain a cycle.
C2_FalseOnlyOnCycle ==
    \A r \in Reqs :
        (Answered(r) /\ response[r].is_dag = FALSE) => HasCycle(nodes[r], edges[r])

\* C3: with distinct ids, the result is the result of check_dag on the same
\* nodes and the edge list without its dangling edges.
FilterEdges(ns, es) == SelectSeq(es, LAMBDA e : InNodeSet(ns, e))

C3_DanglingIgnored ==
    \A r \in Reqs :
        (Done(r) /\ DistinctIds(nodes[r])) =>
            /\ response[r].status = "ok"
            /\ response[r].is_dag = CheckDag(nodes[r], FilterEdges(nodes[r], edges[r]))

\* several isolated nodes and nothing but dangling edges: answered true
C3_Witness ==
    \E r \in Reqs :
        /\ Answered(r)
        /\ DistinctIds(nodes[r])
        /\ Len(nodes[r]) >= 2
        /\ Len(edges[r]) >= 2
        /\ FilterEdges(nodes[r], edges[r]) = <<>>
        /\ response[r].is_dag = TRUE

\* C4: with an empty node list or an empty edge list check_dag returns true
\* at once: no local mapping is ever created and no loop runs.
C4_TrivialReturnsTrue ==
    \A r \in Reqs :
        (pc[r] \notin {"idle", "check_dag"} /\ (nodes[r] = <<>> \/ edges[r] = <<>>)) =>
            /\ pc[r] \in {"respond", "done"}
            /\ is_dag[r] = TRUE
            /\ frame[r] = {}
            /\ Done(r) => (response[r].status = "ok" /\ response[r].is_dag = TRUE)

\* nodes without edges have been answered
C4_Witness ==
    \E r \in Reqs :
        /\ Answered(r)
        /\ Len(nodes[r]) >= 2
        /\ edges[r] = <<>>
        /\ response[r].is_dag = TRUE

\* C5: an edge from a node of the node set to itself makes the answer false,
\* whatever else the request holds.
HasSelfLoop(ns, es) == \E i \in DOMAIN es : es[i].source = es[i].target /\ es[i].source \in IdsOf(ns)

C5_SelfLoopIsNotDag ==
    \A r \in Reqs :
        (Done(r) /\ HasSelfLoop(nodes[r], edges[r])) =>
            /\ response[r].status = "ok"
            /\ response[r].is_dag = FALSE

\* a self-loop beside other nodes and other edges, where some node was dequeued
C5_Witness ==
    \E r \in Reqs :
        /\ Answered(r)
        /\ HasSelfLoop(nodes[r], edges[r])
        /\ Len(edges[r]) >= 2
        /\ Len(order[r]) >= 1
        /\ response[r].is_dag = FALSE

\* C6: the answer carries the lengths of the two submitted arrays, whatever
\* the graph is.
C6_CountsAreLengths ==
    \A r \in Reqs :
        Done(r) =>
            /\ response[r].status = "ok"
            /\ response[r].num_nodes = Len(nodes[r])
            /\ response[r].num_edges = Len(edges[r])

\* a request with a duplicated id, a dangling edge and a cycle
C6_Witness ==
    \E r \in Reqs :
        /\ Answered(r)
        /\ ~DistinctIds(nodes[r])
        /\ HasCycle(nodes[r], edges[r])
        /\ FilterEdges(nodes[r], edges[r]) # edges[r]
        /\ response[r].num_nodes = 2
        /\ response[r].num_edges = 2

\* C7: requests in flight together do not touch each other: an idle slot
\* holds nothing, and two requests with the same lists get the same answer
\* however their steps were interleaved.
C7_RequestsIndependent ==
    /\ \A r \in Reqs :
        pc[r] = "idle" =>
            /\ frame[r] = {} /\ queue[r] = <<>> /\ processed_count[r] = 0
            /\ graph[r] = EmptyDict /\ in_degree[r] = EmptyDict
            /\ response[r] = NoResponse
    /\ \A r1, r2 \in Reqs :
        (Done(r1) /\ Done(r2) /\ nodes[r1] = nodes[r2] /\ edges[r1] = edges[r2]) =>
            response[r1] = response[r2]

\* two requests with the same chain have both been answered
C7_Witness ==
    \E r1, r2 \in Reqs :
        /\ r1 # r2
        /\ Answered(r1) /\ Answered(r2)
        /\ nodes[r1] = nodes[r2] /\ edges[r1] = edges[r2]
        /\ Len(order[r1]) = 2 /\ Len(order[r2]) = 2
        /\ response[r1].is_dag = TRUE

\* C8: no subscript of check_dag fails: the node popped is a key of graph,
\* every id in an adjacency list or in the queue is a key of both mappings,
\* no exception is raised and the answer is the success object; the error
\* answer is given exactly when an exception was raised.
C8_NoException ==
    \A r \in Reqs :
        /\ exc[r] = ""
        /\ \A k \in Range(queue[r]) : Has(graph[r], k) /\ Has(in_degree[r], k)
        /\ \A k \in DOMAIN graph[r].val :
              \A n \in Range(graph[r].val[k]) : Has(in_degree[r], n) /\ Has(graph[r], n)
        /\ pc[r] = "neighbors" => Has(graph[r], current[r])
        /\ Done(r) => (response[r].status = "ok" <=> exc[r] = "")
        /\ Done(r) => response[r].status = "ok"

\* a request with a dangling edge whose loops all ran has been answered
C8_Witness ==
    \E r \in Reqs :
        /\ Answered(r)
        /\ FilterEdges(nodes[r], edges[r]) # edges[r]
        /\ visits[r] >= 2
        /\ Len(order[r]) >= 2

\* C9: a node is dequeued only after the source of every edge into it (both
\* ends in the node set) was dequeued; the queue is served first-in first-out;
\* when the loop starts it holds the ids without such an incoming edge, in
\* request order.
NoIncoming(ns, es, k) == ~\E i \in DOMAIN es : InNodeSet(ns, es[i]) /\ es[i].target = k

C9_PredecessorsFirst ==
    \A r \in Reqs :
        /\ \A p \in DOMAIN order[r] :
              \A i \in DOMAIN edges[r] :
                  (InNodeSet(nodes[r], edges[r][i]) /\ edges[r][i].target = order[r][p]) =>
                      \E p0 \in 1..(p - 1) : order[r][p0] = edges[r][i].source
        /\ order[r] \o queue[r] = enqueued[r]
        /\ (pc[r] = "loop" /\ order[r] = <<>>) =>
              queue[r] = SelectSeq(FirstIds(nodes[r]),
                                   LAMBDA k : NoIncoming(nodes[r], edges[r], k))

\* three nodes were dequeued, two of them after a predecessor
C9_Witness ==
    \E r \in Reqs :
        /\ pc[r] = "return"
        /\ Len(order[r]) >= 3
        /\ visits[r] >= 2
        /\ Len(FirstIds(nodes[r])) >= 3

\* C10: the loop ends with an empty queue after at most one dequeue per
\* distinct id and one visit per edge; no id is enqueued or dequeued twice,
\* processed_count never exceeds the number of distinct ids and no in-degree
\* is ever negative.
C10_LoopTerminates ==
    \A r \in Reqs :
        LET n == Cardinality(IdsOf(nodes[r])) IN
        /\ NoDups(enqueued[r])
        /\ NoDups(order[r])
        /\ processed_count[r] = Len(order[r])
        /\ processed_count[r] <= n
        /\ Len(order[r]) + visits[r] <= n + Len(edges[r])
        /\ \A k \in DOMAIN in_degree[r].val : in_degree[r].val[k] >= 0
        /\ pc[r] \in {"return", "respond", "done"} => queue[r] = <<>>

\* the loop has ended on a graph with a cycle behind a processed node
C10_Witness ==
    \E r \in Reqs :
        /\ pc[r] = "return"
        /\ queue[r] = <<>>
        /\ visits[r] >= 2
        /\ processed_count[r] >= 1
        /\ processed_count[r] < Cardinality(IdsOf(nodes[r]))

====
